---- MODULE Spec2Model ----
(***************************************************************************)
(* Model of frontend/static/js/main.js: the upload preview controller and  *)
(* the image viewer (lightbox) controller of the photo page.               *)
(*                                                                         *)
(* JavaScript numbers are modelled as exact rationals <<n, d>> in lowest   *)
(* terms with d > 0, extended by the IEEE special values the handlers can  *)
(* produce: <<1,0>> is +Infinity, <<-1,0>> is -Infinity and <<0,0>> is NaN.*)
(* Rounding error of doubles is not modelled.                              *)
(*                                                                         *)
(* Pointer coordinates (clientX, clientY) are measured from the top-left   *)
(* corner of the viewer image's untransformed layout box; every handler    *)
(* uses clientX only through clientX - rect.left or through differences of *)
(* clientX, so this choice of origin loses nothing.                        *)
(***************************************************************************)
EXTENDS Integers, Sequences, FiniteSets, TLC

\* ------------------------------------------------------------------ bounds
\* Number of events dispatched in a behaviour of the viewer spec.
MaxEvents == 5
\* Number of events dispatched in a behaviour of the upload spec.
MaxUploadEvents == 6
\* Number of events dispatched in a behaviour of the page-construction spec.
MaxDomEvents == 2
\* Number of transient URLs URL.createObjectURL hands out in a behaviour.
MaxUrls == 3
\* Largest number of simultaneous touch points.
MaxTouches == 2
\* Wheel and touch events are dispatched while the numbers of the transform
\* have denominators of at most MaxDenominator (the arithmetic is exact, and
\* TLC's integers are 32 bits wide).
MaxDenominator == 100
\* Number of applications of the rescale formula in a behaviour of its spec.
MaxRescales == 2
\* Events before the zoomOut button is pressed repeatedly, and the number of
\* presses in a row.
MaxPrefixEvents == 4
MaxPresses == 11

\* ------------------------------------------------------- number arithmetic
Abs(n) == IF n < 0 THEN -n ELSE n
Sgn(n) == IF n < 0 THEN -1 ELSE IF n > 0 THEN 1 ELSE 0

RECURSIVE GCD(_, _)
GCD(a, b) == IF b = 0 THEN a ELSE GCD(b, a % b)

\* n/d in lowest terms; d = 0 gives +-Infinity or NaN
Norm(n, d) ==
    IF d = 0 THEN <<Sgn(n), 0>>
    ELSE LET g == GCD(Abs(n), Abs(d))
         IN  <<Sgn(d) * (n \div g), Abs(d) \div g>>

NaN == <<0, 0>>
Infinity == <<1, 0>>
R(n) == <<n, 1>>
IsNaN(a) == a = NaN
IsInf(a) == a[2] = 0 /\ a[1] # 0

\* a + b, a - b, a * b, a / b with IEEE handling of Infinity and NaN
RAdd(a, b) ==
    IF IsInf(a) /\ IsInf(b) THEN (IF a = b THEN a ELSE NaN)
    ELSE IF a[2] = 0 \/ b[2] = 0 THEN Norm(a[1] * b[2] + b[1] * a[2], 0)
    ELSE LET g == GCD(a[2], b[2])
         IN  Norm(a[1] * (b[2] \div g) + b[1] * (a[2] \div g), (a[2] \div g) * b[2])
RNeg(a) == <<-a[1], a[2]>>
RSub(a, b) == RAdd(a, RNeg(b))
RMul(a, b) ==
    IF a[2] = 0 \/ b[2] = 0 THEN Norm(a[1] * b[1], 0)
    ELSE LET g1 == GCD(Abs(a[1]), b[2])
             g2 == GCD(Abs(b[1]), a[2])
         IN  Norm((a[1] \div g1) * (b[1] \div g2), (a[2] \div g2) * (b[2] \div g1))
RInv(b) ==
    IF b[1] = 0 THEN (IF b[2] = 0 THEN NaN ELSE Infinity)
    ELSE IF b[1] > 0 THEN <<b[2], b[1]>> ELSE <<-b[2], -b[1]>>
RDiv(a, b) == RMul(a, RInv(b))

\* comparisons: every comparison with NaN is false
RLt(a, b) == /\ ~IsNaN(a) /\ ~IsNaN(b)
             /\ IF IsInf(a) /\ IsInf(b) THEN a[1] < b[1]
                ELSE a[1] * b[2] < b[1] * a[2]
RLe(a, b) == /\ ~IsNaN(a) /\ ~IsNaN(b)
             /\ (a = b \/ RLt(a, b))
RGt(a, b) == RLt(b, a)
\* the === of two numbers
REq(a, b) == ~IsNaN(a) /\ ~IsNaN(b) /\ a = b

\* Math.min, Math.max: NaN if either argument is NaN
MathMin(a, b) == IF IsNaN(a) \/ IsNaN(b) THEN NaN ELSE IF RLt(b, a) THEN b ELSE a
MathMax(a, b) == IF IsNaN(a) \/ IsNaN(b) THEN NaN ELSE IF RLt(a, b) THEN b ELSE a

\* integer square root, exact on perfect squares
ISqrt(n) == CHOOSE r \in 0..n : r * r <= n /\ (r + 1) * (r + 1) > n
\* Math.hypot(dx, dy) for finite dx, dy; exact when dx^2 + dy^2 is the
\* square of a rational (the touch points below are chosen that way)
MathHypot(dx, dy) ==
    LET s == RAdd(RMul(dx, dx), RMul(dy, dy))
    IN  Norm(ISqrt(s[1]), ISqrt(s[2]))

\* ------------------------------------------------------------- the page
\* ids of the elements the two controllers look up
UploadIds == {"photoInput", "previewWrap", "previewImg", "uploadModal"}
ViewerIds == {"imgViewer", "viewerImg", "zoomWrap",
              "zoomInBtn", "zoomOutBtn", "zoomResetBtn"}
ElementIds == UploadIds \cup ViewerIds

\* the value of an absent attribute / an empty file list
Null == "null"

\* files the user can pick
Files == {"a.jpg", "b.jpg"}

\* click targets: gallery thumbnails with their data-fullsrc and src
\* attributes, and one element that is no thumbnail
Targets ==
    { [gallery |-> TRUE,  fullsrc |-> "full1.jpg", src |-> "thumb1.jpg"],
      [gallery |-> TRUE,  fullsrc |-> Null,        src |-> "thumb2.jpg"],
      [gallery |-> TRUE,  fullsrc |-> "",          src |-> Null],
      [gallery |-> FALSE, fullsrc |-> "full1.jpg", src |-> "thumb1.jpg"] }

\* mouse and wheel positions
MousePoints == { <<0, 0>>, <<3, 4>> }
\* touch positions (pairwise distances 0, 5, 10)
TouchPoints == { <<0, 0>>, <<3, 4>>, <<6, 8>> }
\* wheel deltaY values
Deltas == { -100, 0, 100 }
\* (clientWidth, clientHeight) of the viewer image: not laid out, or laid out
ClientSizes == { <<0, 0>>, <<8, 6>> }

VARIABLES
    present,        \* ids of the elements that exist in the document
    handlers,       \* event listeners the two controllers registered
    threw,          \* a controller's construction threw
    inputFile,      \* input.files[0], Null when no file is selected
    previewSrc,     \* src attribute of #previewImg, Null when absent
    wrapHidden,     \* #previewWrap carries class d-none
    liveUrls,       \* object URLs created and not revoked
    nextUrl,        \* number of object URLs created so far
    viewerSrc,      \* src of #viewerImg
    shown,          \* the viewer dialog is shown
    scale, originX, originY, posX, posY,
    dragging, startX, startY,
    pinch,          \* [active, dist, midX, midY]
    styleOrigin,    \* viewerImg.style.transformOrigin: Null or <<x, y>>
    styleTransform, \* viewerImg.style.transform: Null or <<x, y, s>>
    styleTransition,
    styleCursor,
    touches,        \* touch points currently on #zoomWrap
    last,           \* the event dispatched last: [op, pt, target]
    presses,        \* zoomOut clicks in a row up to now
    left            \* events still to dispatch

uploadVars == <<inputFile, previewSrc, wrapHidden, liveUrls, nextUrl>>
transformVars == <<scale, originX, originY, posX, posY>>
styleVars == <<styleOrigin, styleTransform, styleTransition, styleCursor>>
viewerVars == <<viewerSrc, shown, transformVars, dragging, startX, startY,
                pinch, styleVars, touches>>
domVars == <<present, handlers, threw>>
vars == <<domVars, uploadVars, viewerVars, last, presses, left>>


\* ------------------------------------------------------- construction
\* receivers that always exist
Globals == {"document", "window"}

\* the upload guard with the checks of the preview container and image left out
UploadGuardInputOnly(p) == "photoInput" \in p

\* if (!input || !wrap || !img) return;
UploadGuard(p) == "photoInput" \in p /\ "previewWrap" \in p /\ "previewImg" \in p

\* the addEventListener calls of the upload controller, as
\* <<receiver, listener>>; the dialog's listener only if (uploadModal)
UploadRegs(p) ==
    IF ~UploadGuard(p) THEN {}
    ELSE {<<"photoInput", "change">>}
         \cup (IF "uploadModal" \in p THEN {<<"uploadModal", "uploadHidden">>} ELSE {})

\* if (!viewerModalEl || !viewerImg || !zoomWrap) return;
ViewerGuard(p) == "imgViewer" \in p /\ "viewerImg" \in p /\ "zoomWrap" \in p

\* the addEventListener calls of the viewer controller; the three buttons
\* are registered through ?. and skipped when the button is absent
ViewerRegs(p) ==
    IF ~ViewerGuard(p) THEN {}
    ELSE { <<"document", "docClick">>, <<"viewerImg", "mousedown">>,
           <<"window", "mousemove">>, <<"window", "mouseup">>,
           <<"zoomWrap", "wheel">>, <<"zoomWrap", "touchstart">>,
           <<"zoomWrap", "touchmove">>, <<"zoomWrap", "touchend">>,
           <<"imgViewer", "viewerHidden">> }
         \cup { r \in { <<"zoomInBtn", "zoomIn">>, <<"zoomOutBtn", "zoomOut">>,
                        <<"zoomResetBtn", "zoomReset">> } : r[1] \in p }

\* a call on a receiver that is null throws a TypeError
CtorThrew(p) ==
    \E r \in UploadRegs(p) \cup ViewerRegs(p) : r[1] \notin p \cup Globals
\* the listeners in place after both constructors ran
CtorHandlers(p) ==
    { r[2] : r \in { q \in UploadRegs(p) \cup ViewerRegs(p) : q[1] \in p \cup Globals } }

NoPoint == <<R(0), R(0)>>
NoTarget == [gallery |-> FALSE, fullsrc |-> Null, src |-> Null]

InitState(p, budget) ==
    /\ present = p
    /\ handlers = CtorHandlers(p)
    /\ threw = CtorThrew(p)
    /\ inputFile = Null
    /\ previewSrc = Null
    /\ wrapHidden = TRUE
    /\ liveUrls = {}
    /\ nextUrl = 0
    /\ viewerSrc = Null
    /\ shown = FALSE
    /\ scale = R(1)
    /\ originX = R(0)
    /\ originY = R(0)
    /\ posX = R(0)
    /\ posY = R(0)
    /\ dragging = FALSE
    /\ startX = R(0)
    /\ startY = R(0)
    /\ pinch = [active |-> FALSE, dist |-> R(0), midX |-> R(0), midY |-> R(0)]
    /\ styleOrigin = Null
    /\ styleTransform = Null
    /\ styleTransition = ""
    /\ styleCursor = ""
    /\ touches = 0
    /\ last = [op |-> "load", pt |-> NoPoint, target |-> NoTarget]
    /\ presses = 0
    /\ left = budget

\* one event is dispatched: its name, pointer position and click target
Dispatch(op, pt, t) ==
    /\ left > 0
    /\ left' = left - 1
    /\ last' = [op |-> op, pt |-> pt, target |-> t]
    /\ presses' = IF op = "zoomOut" THEN presses + 1 ELSE 0
Step(op, pt) == Dispatch(op, pt, NoTarget)

\* ------------------------------------------------ upload preview controller
\* URL.createObjectURL: a fresh URL per call
BlobUrl(n) == "blob:" \o ToString(n)

\* the change listener without the removal of the image source
ChangeHandlerKeepSrc(f) ==
    IF f = Null
    THEN /\ wrapHidden' = TRUE
         /\ UNCHANGED <<previewSrc, liveUrls, nextUrl>>
    ELSE /\ nextUrl' = nextUrl + 1
         /\ liveUrls' = liveUrls \cup {BlobUrl(nextUrl')}
         /\ previewSrc' = BlobUrl(nextUrl')
         /\ wrapHidden' = FALSE

\* the change listener, with input.files[0] = f
ChangeHandler(f) ==
    IF f = Null
    THEN /\ wrapHidden' = TRUE
         /\ previewSrc' = Null
         /\ UNCHANGED <<liveUrls, nextUrl>>
    ELSE /\ nextUrl' = nextUrl + 1
         /\ liveUrls' = liveUrls \cup {BlobUrl(nextUrl')}
         /\ previewSrc' = BlobUrl(nextUrl')
         /\ wrapHidden' = FALSE

\* the user changes the selection of #photoInput to f (Null: to no file)
Change(f) ==
    /\ "photoInput" \in present
    /\ f # inputFile
    /\ f # Null => nextUrl < MaxUrls
    /\ Step(IF f = Null THEN "deselect" ELSE "select", NoPoint)
    /\ inputFile' = f
    /\ IF "change" \in handlers
       THEN ChangeHandler(f)
       ELSE UNCHANGED <<previewSrc, wrapHidden, liveUrls, nextUrl>>
    /\ UNCHANGED <<domVars, viewerVars>>

\* the hidden.bs.modal listener of #uploadModal
UploadHiddenHandler ==
    /\ inputFile' = Null
    /\ liveUrls' = IF previewSrc # Null THEN liveUrls \ {previewSrc} ELSE liveUrls
    /\ previewSrc' = Null
    /\ wrapHidden' = TRUE
    /\ UNCHANGED nextUrl

\* the upload dialog has been closed
UploadHidden ==
    /\ "uploadModal" \in present
    /\ Step("uploadHidden", NoPoint)
    /\ IF "uploadHidden" \in handlers
       THEN UploadHiddenHandler
       ELSE UNCHANGED uploadVars
    /\ UNCHANGED <<domVars, viewerVars>>

NextUpload == (\E f \in Files \cup {Null} : Change(f)) \/ UploadHidden

InitUpload == InitState(ElementIds, MaxUploadEvents)
SpecUpload == InitUpload /\ [][NextUpload]_vars


\* --------------------------------------------------- image viewer controller
MinScale == 1
MaxScale == 6
\* the button factor 1.2 and the wheel factors 0.9 and 1.1
ZoomStep == <<6, 5>>
WheelOut == <<9, 10>>
WheelIn == <<11, 10>>

\* the viewer's elements can be reached by the pointer: the dialog is shown,
\* or there is no dialog element to hide them
Visible == shown \/ "imgViewer" \notin present

IsFinite(a) == a[2] # 0

\* the numbers the wheel and pinch listeners compute with are short enough
Precise ==
    \A a \in {scale, originX, originY, posX, posY, pinch.dist}
             \cup (IF styleTransform = Null THEN {}
                   ELSE {styleOrigin[1], styleOrigin[2], styleTransform[1],
                         styleTransform[2], styleTransform[3]}) :
        a[2] <= MaxDenominator

\* viewerImg.getBoundingClientRect().left and .top: the left and top edge of
\* the image box under the transform the element displays,
\* p |-> origin + translate + scale * (p - origin), at p = 0 (scale > 0)
RectLeft ==
    IF styleTransform = Null THEN R(0)
    ELSE RAdd(RMul(styleOrigin[1], RSub(R(1), styleTransform[3])), styleTransform[1])
RectTop ==
    IF styleTransform = Null THEN R(0)
    ELSE RAdd(RMul(styleOrigin[2], RSub(R(1), styleTransform[3])), styleTransform[2])

\* applyTransform() with the state it reads given as (ox, oy, px, py, s).
\* `${NaN}px` and scale(NaN) are not valid CSS: the style keeps its old value.
applyTransform(ox, oy, px, py, s) ==
    /\ styleOrigin' = IF IsFinite(ox) /\ IsFinite(oy) THEN <<ox, oy>> ELSE styleOrigin
    /\ styleTransform' = IF IsFinite(px) /\ IsFinite(py) /\ IsFinite(s)
                         THEN <<px, py, s>> ELSE styleTransform
    /\ styleTransition' = "transform 0.05s linear"

\* resetTransform() without the reset of the translation
resetTransformKeepPos(size) ==
    /\ scale' = R(1)
    /\ UNCHANGED <<posX, posY>>
    /\ originX' = RDiv(R(size[1]), R(2))
    /\ originY' = RDiv(R(size[2]), R(2))
    /\ applyTransform(originX', originY', posX', posY', scale')

\* resetTransform() with viewerImg.clientWidth, clientHeight = size
resetTransform(size) ==
    /\ scale' = R(1)
    /\ posX' = R(0)
    /\ posY' = R(0)
    /\ originX' = RDiv(R(size[1]), R(2))
    /\ originY' = RDiv(R(size[2]), R(2))
    /\ applyTransform(originX', originY', posX', posY', scale')

\* t.getAttribute("data-fullsrc") || t.getAttribute("src")
FullSrc(t) == IF t.fullsrc # Null /\ t.fullsrc # "" THEN t.fullsrc ELSE t.src

\* the document click listener without the call of resetTransform()
DocClickHandlerNoReset(t) ==
    IF t.gallery /\ FullSrc(t) # Null /\ FullSrc(t) # ""
    THEN /\ viewerSrc' = FullSrc(t)
         /\ shown' = TRUE
         /\ UNCHANGED <<transformVars, dragging, startX, startY, pinch, styleVars,
                        touches>>
    ELSE UNCHANGED viewerVars

\* the document click listener, with e.target = t
DocClickHandler(t) ==
    IF t.gallery /\ FullSrc(t) # Null /\ FullSrc(t) # ""
    THEN /\ viewerSrc' = FullSrc(t)
         /\ \E size \in ClientSizes : resetTransform(size)
         /\ shown' = TRUE
         /\ UNCHANGED <<dragging, startX, startY, pinch, styleCursor, touches>>
    ELSE UNCHANGED viewerVars

\* a click somewhere in the document
DocClick(t) ==
    /\ Dispatch(IF t.gallery THEN "thumbClick" ELSE "otherClick", NoPoint, t)
    /\ IF "docClick" \in handlers THEN DocClickHandler(t) ELSE UNCHANGED viewerVars
    /\ UNCHANGED <<domVars, uploadVars>>

\* scale = Math.min(scale * 1.2, 6)
ZoomInScale(s) == MathMin(RMul(s, ZoomStep), R(MaxScale))
\* zoom out without the clamp at 1
ZoomOutScaleNoClamp(s) == RDiv(s, ZoomStep)
\* scale = Math.max(scale / 1.2, 1)
ZoomOutScale(s) == MathMax(RDiv(s, ZoomStep), R(MinScale))

ZoomInHandler ==
    /\ scale' = ZoomInScale(scale)
    /\ UNCHANGED <<originX, originY, posX, posY>>
    /\ applyTransform(originX, originY, posX, posY, scale')
    /\ UNCHANGED <<viewerSrc, shown, dragging, startX, startY, pinch, styleCursor, touches>>

\* the zoom-out listener rescaling the translation by newScale / oldScale,
\* as the wheel listener does
ZoomOutHandlerRescale ==
    /\ scale' = ZoomOutScale(scale)
    /\ IF REq(scale', R(1))
       THEN posX' = R(0) /\ posY' = R(0)
       ELSE /\ posX' = RMul(posX, RDiv(scale', scale))
            /\ posY' = RMul(posY, RDiv(scale', scale))
    /\ UNCHANGED <<originX, originY>>
    /\ applyTransform(originX, originY, posX', posY', scale')
    /\ UNCHANGED <<viewerSrc, shown, dragging, startX, startY, pinch, styleCursor, touches>>

ZoomOutHandler ==
    /\ scale' = ZoomOutScale(scale)
    /\ IF REq(scale', R(1))
       THEN posX' = R(0) /\ posY' = R(0)
       ELSE UNCHANGED <<posX, posY>>
    /\ UNCHANGED <<originX, originY>>
    /\ applyTransform(originX, originY, posX', posY', scale')
    /\ UNCHANGED <<viewerSrc, shown, dragging, startX, startY, pinch, styleCursor, touches>>

ZoomResetHandler ==
    /\ \E size \in ClientSizes : resetTransform(size)
    /\ UNCHANGED <<viewerSrc, shown, dragging, startX, startY, pinch, styleCursor, touches>>

ZoomInClick ==
    /\ "zoomInBtn" \in present /\ Visible
    /\ Step("zoomIn", NoPoint)
    /\ IF "zoomIn" \in handlers THEN ZoomInHandler ELSE UNCHANGED viewerVars
    /\ UNCHANGED <<domVars, uploadVars>>

ZoomOutClick ==
    /\ "zoomOutBtn" \in present /\ Visible
    /\ Step("zoomOut", NoPoint)
    /\ IF "zoomOut" \in handlers THEN ZoomOutHandler ELSE UNCHANGED viewerVars
    /\ UNCHANGED <<domVars, uploadVars>>

ZoomResetClick ==
    /\ "zoomResetBtn" \in present /\ Visible
    /\ Step("zoomReset", NoPoint)
    /\ IF "zoomReset" \in handlers THEN ZoomResetHandler ELSE UNCHANGED viewerVars
    /\ UNCHANGED <<domVars, uploadVars>>


\* the mousedown listener with the pointer itself as the anchor
MouseDownHandlerNoOffset(pt) ==
    IF RLe(scale, R(1))
    THEN UNCHANGED viewerVars
    ELSE /\ dragging' = TRUE
         /\ startX' = R(pt[1])
         /\ startY' = R(pt[2])
         /\ styleCursor' = "grabbing"
         /\ UNCHANGED <<viewerSrc, shown, transformVars, pinch, styleOrigin,
                        styleTransform, styleTransition, touches>>

\* mousedown on #viewerImg at (clientX, clientY) = pt
MouseDownHandler(pt) ==
    IF RLe(scale, R(1))
    THEN UNCHANGED viewerVars
    ELSE /\ dragging' = TRUE
         /\ startX' = RSub(R(pt[1]), posX)
         /\ startY' = RSub(R(pt[2]), posY)
         /\ styleCursor' = "grabbing"
         /\ UNCHANGED <<viewerSrc, shown, transformVars, pinch, styleOrigin,
                        styleTransform, styleTransition, touches>>

\* mousemove on window
MouseMoveHandler(pt) ==
    IF ~dragging
    THEN UNCHANGED viewerVars
    ELSE /\ posX' = RSub(R(pt[1]), startX)
         /\ posY' = RSub(R(pt[2]), startY)
         /\ UNCHANGED <<scale, originX, originY>>
         /\ applyTransform(originX, originY, posX', posY', scale)
         /\ UNCHANGED <<viewerSrc, shown, dragging, startX, startY, pinch,
                        styleCursor, touches>>

\* mouseup on window
MouseUpHandler ==
    /\ dragging' = FALSE
    /\ styleCursor' = ""
    /\ UNCHANGED <<viewerSrc, shown, transformVars, startX, startY, pinch,
                   styleOrigin, styleTransform, styleTransition, touches>>

MouseDown(pt) ==
    /\ "viewerImg" \in present /\ Visible
    /\ Step("mousedown", <<R(pt[1]), R(pt[2])>>)
    /\ IF "mousedown" \in handlers THEN MouseDownHandler(pt) ELSE UNCHANGED viewerVars
    /\ UNCHANGED <<domVars, uploadVars>>

MouseMove(pt) ==
    /\ Step("mousemove", <<R(pt[1]), R(pt[2])>>)
    /\ IF "mousemove" \in handlers THEN MouseMoveHandler(pt) ELSE UNCHANGED viewerVars
    /\ UNCHANGED <<domVars, uploadVars>>

MouseUp ==
    /\ Step("mouseup", NoPoint)
    /\ IF "mouseup" \in handlers THEN MouseUpHandler ELSE UNCHANGED viewerVars
    /\ UNCHANGED <<domVars, uploadVars>>

\* Math.min(Math.max(s, 1), 6)
ClampScale(s) == MathMin(MathMax(s, R(MinScale)), R(MaxScale))

\* the rescale formula without the origin added back
RescaleNoOrigin(pos, origin, factor) == RMul(RSub(pos, origin), factor)

\* pos = (pos - origin) * factor + origin
Rescale(pos, origin, factor) == RAdd(RMul(RSub(pos, origin), factor), origin)

\* the factor with a deltaY of zero zooming out
WheelDeltaFlatOut(deltaY) == IF deltaY < 0 THEN WheelIn ELSE WheelOut

\* const delta = e.deltaY > 0 ? 0.9 : 1.1
WheelDelta(deltaY) == IF deltaY > 0 THEN WheelOut ELSE WheelIn

\* the wheel listener of #zoomWrap, cursor at pt
WheelHandler(pt, deltaY) ==
    LET newScale == ClampScale(RMul(scale, WheelDelta(deltaY)))
        factor == RDiv(newScale, scale)
    IN  /\ originX' = RSub(R(pt[1]), RectLeft)
        /\ originY' = RSub(R(pt[2]), RectTop)
        /\ scale' = newScale
        /\ IF REq(newScale, R(1))
           THEN posX' = R(0) /\ posY' = R(0)
           ELSE /\ posX' = Rescale(posX, originX', factor)
                /\ posY' = Rescale(posY, originY', factor)
        /\ applyTransform(originX', originY', posX', posY', scale')
        /\ UNCHANGED <<viewerSrc, shown, dragging, startX, startY, pinch,
                       styleCursor, touches>>

\* the event's name by the sign of e.deltaY
WheelOp(deltaY) ==
    IF deltaY > 0 THEN "wheelOut" ELSE IF deltaY < 0 THEN "wheelIn" ELSE "wheelFlat"

Wheel(pt, deltaY) ==
    /\ "zoomWrap" \in present /\ Visible
    /\ Precise
    /\ Step(WheelOp(deltaY), <<R(pt[1]), R(pt[2])>>)
    /\ IF "wheel" \in handlers THEN WheelHandler(pt, deltaY) ELSE UNCHANGED viewerVars
    /\ UNCHANGED <<domVars, uploadVars>>

\* distance(a, b)
distance(a, b) ==
    LET dx == RSub(R(a[1]), R(b[1]))
        dy == RSub(R(a[2]), R(b[2]))
    IN  MathHypot(dx, dy)

\* the point midway between two touches, relative to the image's rect
MidX(ts) == RSub(RDiv(RAdd(R(ts[1][1]), R(ts[2][1])), R(2)), RectLeft)
MidY(ts) == RSub(RDiv(RAdd(R(ts[1][2]), R(ts[2][2])), R(2)), RectTop)

\* the touchstart listener, e.touches = ts
TouchStartHandler(ts) ==
    IF Len(ts) = 2
    THEN /\ pinch' = [active |-> TRUE, dist |-> distance(ts[1], ts[2]),
                      midX |-> MidX(ts), midY |-> MidY(ts)]
         /\ originX' = pinch'.midX
         /\ originY' = pinch'.midY
         /\ UNCHANGED <<viewerSrc, shown, scale, posX, posY, dragging, startX,
                        startY, styleVars>>
    ELSE IF Len(ts) = 1 /\ RGt(scale, R(1))
    THEN /\ dragging' = TRUE
         /\ startX' = RSub(R(ts[1][1]), posX)
         /\ startY' = RSub(R(ts[1][2]), posY)
         /\ UNCHANGED <<viewerSrc, shown, transformVars, pinch, styleVars>>
    ELSE UNCHANGED <<viewerSrc, shown, transformVars, dragging, startX, startY,
                     pinch, styleVars>>

\* the touchmove listener, e.touches = ts
TouchMoveHandler(ts) ==
    IF pinch.active /\ Len(ts) = 2
    THEN LET d == distance(ts[1], ts[2])
             factor == RDiv(d, pinch.dist)
             newScale == ClampScale(RMul(scale, factor))
             scaleFactor == RDiv(newScale, scale)
         IN  /\ originX' = MidX(ts)
             /\ originY' = MidY(ts)
             /\ scale' = newScale
             /\ IF REq(newScale, R(1))
                THEN posX' = R(0) /\ posY' = R(0)
                ELSE /\ posX' = Rescale(posX, originX', scaleFactor)
                     /\ posY' = Rescale(posY, originY', scaleFactor)
             /\ applyTransform(originX', originY', posX', posY', scale')
             /\ pinch' = [pinch EXCEPT !.dist = d]
             /\ UNCHANGED <<viewerSrc, shown, dragging, startX, startY, styleCursor>>
    ELSE IF dragging /\ Len(ts) = 1
    THEN /\ posX' = RSub(R(ts[1][1]), startX)
         /\ posY' = RSub(R(ts[1][2]), startY)
         /\ UNCHANGED <<scale, originX, originY>>
         /\ applyTransform(originX, originY, posX', posY', scale)
         /\ UNCHANGED <<viewerSrc, shown, dragging, startX, startY, pinch, styleCursor>>
    ELSE UNCHANGED <<viewerSrc, shown, transformVars, dragging, startX, startY,
                     pinch, styleVars>>

\* the touchend listener without the reset of dragging
TouchEndHandlerKeepDrag ==
    /\ pinch' = [pinch EXCEPT !.active = FALSE]
    /\ UNCHANGED <<viewerSrc, shown, transformVars, dragging, startX, startY,
                   styleVars>>

\* the touchend listener
TouchEndHandler ==
    /\ pinch' = [pinch EXCEPT !.active = FALSE]
    /\ dragging' = FALSE
    /\ UNCHANGED <<viewerSrc, shown, transformVars, startX, startY, styleVars>>

\* the touch lists of n touch points: the last finger anywhere, the fingers
\* before it at the first touch position
TouchLists(n) ==
    { ts \in [1..n -> TouchPoints] : \A i \in 1..(n - 1) : ts[i] = <<0, 0>> }
\* the event's pointer position: the touch, or the midpoint of two touches
TouchPoint(ts) ==
    IF Len(ts) = 2
    THEN <<RDiv(RAdd(R(ts[1][1]), R(ts[2][1])), R(2)),
           RDiv(RAdd(R(ts[1][2]), R(ts[2][2])), R(2))>>
    ELSE <<R(ts[1][1]), R(ts[1][2])>>

\* one or more fingers are put on #zoomWrap; e.touches lists all n touches
TouchStart(ts) ==
    /\ "zoomWrap" \in present /\ Visible
    /\ Len(ts) > touches
    /\ Precise
    /\ Step(IF Len(ts) = 2 THEN "pinchStart" ELSE "touchStart", TouchPoint(ts))
    /\ touches' = Len(ts)
    /\ IF "touchstart" \in handlers
       THEN TouchStartHandler(ts)
       ELSE UNCHANGED <<viewerSrc, shown, transformVars, dragging, startX, startY,
                        pinch, styleVars>>
    /\ UNCHANGED <<domVars, uploadVars>>

\* the fingers on #zoomWrap move
TouchMove(ts) ==
    /\ "zoomWrap" \in present
    /\ touches > 0 /\ Len(ts) = touches
    /\ Precise
    /\ Step(IF Len(ts) = 2 THEN "pinchMove" ELSE "touchMove", TouchPoint(ts))
    /\ UNCHANGED touches
    /\ IF "touchmove" \in handlers
       THEN TouchMoveHandler(ts)
       ELSE UNCHANGED <<viewerSrc, shown, transformVars, dragging, startX, startY,
                        pinch, styleVars>>
    /\ UNCHANGED <<domVars, uploadVars>>

\* fingers are lifted from #zoomWrap, n stay
TouchEnd(n) ==
    /\ "zoomWrap" \in present
    /\ n < touches
    /\ Step("touchEnd", NoPoint)
    /\ touches' = n
    /\ IF "touchend" \in handlers
       THEN TouchEndHandler
       ELSE UNCHANGED <<viewerSrc, shown, transformVars, dragging, startX, startY,
                        pinch, styleVars>>
    /\ UNCHANGED <<domVars, uploadVars>>

\* the hidden.bs.modal listener of #imgViewer: resetTransform
ViewerHiddenHandler ==
    /\ \E size \in ClientSizes : resetTransform(size)
    /\ UNCHANGED <<viewerSrc, dragging, startX, startY, pinch, styleCursor, touches>>

\* the viewer dialog has been closed
ViewerHidden ==
    /\ "imgViewer" \in present /\ shown
    /\ Step("viewerHidden", NoPoint)
    /\ shown' = FALSE
    /\ IF "viewerHidden" \in handlers
       THEN ViewerHiddenHandler
       ELSE UNCHANGED <<viewerSrc, transformVars, dragging, startX, startY, pinch,
                        styleVars, touches>>
    /\ UNCHANGED <<domVars, uploadVars>>

NextViewer ==
    \/ \E t \in Targets : DocClick(t)
    \/ ZoomInClick
    \/ ZoomOutClick
    \/ ZoomResetClick
    \/ \E pt \in MousePoints : MouseDown(pt)
    \/ \E pt \in MousePoints : MouseMove(pt)
    \/ MouseUp
    \/ \E pt \in MousePoints, deltaY \in Deltas : Wheel(pt, deltaY)
    \/ \E n \in 1..MaxTouches : \E ts \in TouchLists(n) : TouchStart(ts)
    \/ \E n \in 1..MaxTouches : \E ts \in TouchLists(n) : TouchMove(ts)
    \/ \E n \in 0..MaxTouches : TouchEnd(n)
    \/ ViewerHidden

InitViewer == InitState(ElementIds, MaxEvents)
SpecViewer == InitViewer /\ [][NextViewer]_vars

\* the page with any of the elements missing, and every event
InitDom == \E p \in SUBSET ElementIds : InitState(p, MaxDomEvents)
NextDom == NextUpload \/ NextViewer
SpecDom == InitDom /\ [][NextDom]_vars


\* ------------------------------------------------------ the rescale formula
\* scales of [1, 6], and coordinates of points and origins
ScaleSamples == { R(1), <<11, 10>>, <<6, 5>>, R(2), <<7, 2>>, R(6) }
CoordSamples == { R(-3), R(0), <<3, 2>>, R(4) }

\* any origin, any point, any scale of the range
InitRescale ==
    /\ present = ElementIds
    /\ handlers = CtorHandlers(ElementIds)
    /\ threw = CtorThrew(ElementIds)
    /\ inputFile = Null
    /\ previewSrc = Null
    /\ wrapHidden = TRUE
    /\ liveUrls = {}
    /\ nextUrl = 0
    /\ viewerSrc = Null
    /\ shown = FALSE
    /\ scale \in ScaleSamples
    /\ originX \in CoordSamples
    /\ originY \in CoordSamples
    /\ posX \in CoordSamples
    /\ posY \in CoordSamples
    /\ dragging = FALSE
    /\ startX = R(0)
    /\ startY = R(0)
    /\ pinch = [active |-> FALSE, dist |-> R(0), midX |-> R(0), midY |-> R(0)]
    /\ styleOrigin = Null
    /\ styleTransform = Null
    /\ styleTransition = ""
    /\ styleCursor = ""
    /\ touches = 0
    /\ last = [op |-> "load", pt |-> NoPoint, target |-> NoTarget]
    /\ presses = 0
    /\ left = MaxRescales

\* const factor = newScale / scale; posX = (posX - originX) * factor + originX;
\* posY likewise; scale = newScale
RescaleTo(newScale) ==
    /\ Step("rescale", NoPoint)
    /\ posX' = Rescale(posX, originX, RDiv(newScale, scale))
    /\ posY' = Rescale(posY, originY, RDiv(newScale, scale))
    /\ scale' = newScale
    /\ UNCHANGED <<domVars, uploadVars, viewerSrc, shown, originX, originY,
                   dragging, startX, startY, pinch, styleVars, touches>>

NextRescale == \E newScale \in ScaleSamples : RescaleTo(newScale)
SpecRescale == InitRescale /\ [][NextRescale]_vars

\* ------------------------------------------------- repeated zoomOut presses
\* the zoomOut button is clicked again, right after a click on it
ZoomOutAgain ==
    /\ "zoomOutBtn" \in present /\ Visible
    /\ presses > 0 /\ presses < MaxPresses
    /\ presses' = presses + 1
    /\ last' = [op |-> "zoomOut", pt |-> NoPoint, target |-> NoTarget]
    /\ IF "zoomOut" \in handlers THEN ZoomOutHandler ELSE UNCHANGED viewerVars
    /\ UNCHANGED <<domVars, uploadVars, left>>

\* any MaxPrefixEvents events of the viewer, and runs of zoomOut clicks
InitZoomOut == InitState(ElementIds, MaxPrefixEvents)
NextZoomOut == NextViewer \/ ZoomOutAgain
SpecZoomOut == InitZoomOut /\ [][NextZoomOut]_vars

\* ------------------------------------------------------------- properties

\* C1: in every reachable state of the viewer the scale lies in [1, 6].
C1_ScaleInRange == RLe(R(MinScale), scale) /\ RLe(scale, R(MaxScale))

\* C2: whenever scale == 1 the translation is (0, 0).
C2_UnzoomedNotPanned == REq(scale, R(1)) => (posX = R(0) /\ posY = R(0))

\* C3: at most one transient display URL is created and not yet released.
C3_AtMostOneLiveUrl == Cardinality(liveUrls) <= 1

\* C4: the viewer's dialog-closed event leaves scale 1 and translation (0, 0),
\* whatever the state before it.
C4_CloseResets ==
    last.op = "viewerHidden" => (scale = R(1) /\ posX = R(0) /\ posY = R(0))
\* the dialog was closed while a drag was in progress
C4_ClosedWhileDragging == last.op = "viewerHidden" /\ dragging

\* the image point shown at screen position c under origin o, translation t
\* and scale s, and the screen position of image point p
ImagePointAt(c, o, t, s) == RAdd(o, RDiv(RSub(RSub(c, o), t), s))
ScreenPos(p, o, t, s) == RAdd(RAdd(o, t), RMul(s, RSub(p, o)))

\* C5: wheel-zoom and pinch-zoom keep the image point under the cursor / pinch
\* midpoint at the cursor's / midpoint's screen position.
C5_ZoomKeepsPointUnderCursor ==
    [][ last'.op \in {"wheelIn", "wheelOut", "wheelFlat", "pinchMove"} =>
          /\ ScreenPos(ImagePointAt(last'.pt[1], originX, posX, scale),
                       originX', posX', scale') = last'.pt[1]
          /\ ScreenPos(ImagePointAt(last'.pt[2], originY, posY, scale),
                       originY', posY', scale') = last'.pt[2] ]_vars

\* C6: after a file was selected and then deselected the preview image has no
\* source and the preview container is hidden.
C6_DeselectClearsPreview ==
    last.op = "deselect" => (previewSrc = Null /\ wrapHidden)
\* a deselection after a selection that created a URL
C6_DeselectedAfterSelect == last.op = "deselect" /\ liveUrls # {}

HasSource(t) == (t.fullsrc # Null /\ t.fullsrc # "") \/ (t.src # Null /\ t.src # "")
IsIdentity == scale = R(1) /\ posX = R(0) /\ posY = R(0)

\* C7 as claimed: every click on a thumbnail sets the viewer image source,
\* resets the transform to identity and shows the dialog.
C7_ThumbClickOpens ==
    last.op = "thumbClick" =>
        /\ viewerSrc = (IF last.target.fullsrc \notin {Null, ""}
                        THEN last.target.fullsrc ELSE last.target.src)
        /\ IsIdentity
        /\ shown

\* C7 as amended: a click on a thumbnail with a non-empty data-fullsrc or src
\* attribute sets the viewer image source to data-fullsrc, or to src when
\* data-fullsrc is absent or empty, resets the transform to identity and shows
\* the dialog; a click on a thumbnail with neither changes nothing.
C7_ThumbClickWithSourceOpens ==
    [][ last'.op = "thumbClick" =>
          IF HasSource(last'.target)
          THEN /\ viewerSrc' = (IF last'.target.fullsrc \notin {Null, ""}
                                THEN last'.target.fullsrc ELSE last'.target.src)
               /\ IsIdentity'
               /\ shown'
          ELSE UNCHANGED viewerVars ]_vars
\* a thumbnail without data-fullsrc was opened while a drag was in progress
C7_OpenedWhileDragging ==
    last.op = "thumbClick" /\ shown /\ dragging /\ viewerSrc = "thumb2.jpg"

\* the state of the two controllers as it is after page load
UploadUntouched ==
    previewSrc = Null /\ wrapHidden /\ liveUrls = {} /\ nextUrl = 0
ViewerUntouched ==
    /\ viewerSrc = Null /\ ~shown /\ IsIdentity
    /\ originX = R(0) /\ originY = R(0)
    /\ ~dragging /\ startX = R(0) /\ startY = R(0)
    /\ ~pinch.active /\ pinch.dist = R(0)
    /\ styleOrigin = Null /\ styleTransform = Null
    /\ styleTransition = "" /\ styleCursor = ""
UploadListeners == {"change", "uploadHidden"}
ViewerListeners ==
    {"docClick", "zoomIn", "zoomOut", "zoomReset", "mousedown", "mousemove",
     "mouseup", "wheel", "touchstart", "touchmove", "touchend", "viewerHidden"}

C9_ZoomOutScalesTranslation ==
    [][ (last'.op = "zoomOut" /\ RGt(scale', R(1))) =>
          /\ posX' = RMul(posX, RDiv(scale', scale))
          /\ posY' = RMul(posY, RDiv(scale', scale)) ]_vars

\* C9 as amended: a button zoomOut whose resulting scale is greater than 1
\* leaves the translation as it was, neither rescaled nor reset.
C9_ZoomOutKeepsTranslation ==
    [][ (last'.op = "zoomOut" /\ RGt(scale', R(1))) =>
          (posX' = posX /\ posY' = posY) ]_vars
\* a zoomOut that ended above scale 1 with a translation in place
C9_ZoomedOutWhilePanned ==
    last.op = "zoomOut" /\ RGt(scale, R(1)) /\ posX # R(0) /\ posY # R(0)

\* C10: zoomIn sets scale to min(scale * 1.2, 6) and keeps the translation;
\* zoomOut sets scale to max(scale / 1.2, 1) and, when that is exactly 1,
\* sets the translation to (0, 0).  (min and max of NaN are NaN.)
C10_ButtonZoom ==
    [][ /\ last'.op = "zoomIn" =>
            /\ scale' = (IF RGt(RMul(scale, <<12, 10>>), R(6))
                         THEN R(6) ELSE RMul(scale, <<12, 10>>))
            /\ posX' = posX /\ posY' = posY
        /\ last'.op = "zoomOut" =>
            /\ scale' = (IF RLt(RDiv(scale, <<12, 10>>), R(1))
                         THEN R(1) ELSE RDiv(scale, <<12, 10>>))
            /\ (scale' = R(1) => (posX' = R(0) /\ posY' = R(0))) ]_vars
\* a zoomOut that was clamped to scale 1 during a drag
C10_ZoomedOutToOne == last.op = "zoomOut" /\ scale = R(1) /\ dragging

\* (t - o) * (newScale / oldScale) + o
RescaledAbout(t, o, newScale, oldScale) ==
    RAdd(RMul(RSub(t, o), RDiv(newScale, oldScale)), o)
\* the scale factor of a wheel event as the claim reads it: 1.1 for a negative
\* deltaY, 0.9 otherwise
ClaimedWheelDelta(op) == IF op = "wheelIn" THEN WheelIn ELSE WheelOut
\* the wheel event's effect for a given scale factor: the origin is the cursor
\* relative to the image's bounding rectangle, the scale is clamped, the
\* translation is rescaled about the new origin, or (0, 0) at scale 1
WheelEffect(f) ==
    /\ originX' = RSub(last'.pt[1], RectLeft)
    /\ originY' = RSub(last'.pt[2], RectTop)
    /\ scale' = ClampScale(RMul(scale, f))
    /\ IF REq(scale', R(1))
       THEN posX' = R(0) /\ posY' = R(0)
       ELSE /\ posX' = RescaledAbout(posX, originX', scale', scale)
            /\ posY' = RescaledAbout(posY, originY', scale', scale)

\* C11 as claimed: every wheel event moves the origin to the cursor, sets the
\* scale to clamp(scale * (deltaY < 0 ? 1.1 : 0.9), 1, 6) and rescales the
\* translation about the origin, (0, 0) at scale 1.
C11_WheelAsClaimed ==
    [][ last'.op \in {"wheelIn", "wheelOut", "wheelFlat"} =>
          WheelEffect(ClaimedWheelDelta(last'.op)) ]_vars
\* C11: every wheel event moves the origin to the cursor, sets the scale to
\* clamp(scale * (deltaY > 0 ? 0.9 : 1.1), 1, 6), so a deltaY of zero zooms in,
\* and rescales the translation about the origin, (0, 0) at scale 1.
C11_WheelZoom ==
    [][ last'.op \in {"wheelIn", "wheelOut", "wheelFlat"} =>
          WheelEffect(IF last'.op = "wheelOut" THEN WheelOut ELSE WheelIn) ]_vars
\* a wheel event with deltaY zero zoomed a translated image further in
C11_FlatWheelZoomedIn ==
    /\ last.op = "wheelFlat"
    /\ RGt(scale, WheelIn)
    /\ posX # R(0)

\* C12: a touchmove with exactly one touch while scale > 1 moves the
\* translation as a drag does, to the touch point minus the anchor, also when
\* that touch is what remains after one finger of a pinch was lifted.
C12_OneTouchMovePans ==
    [][ (last'.op = "touchMove" /\ touches' = 1 /\ RGt(scale, R(1))) =>
          /\ posX' = RSub(last'.pt[1], startX)
          /\ posY' = RSub(last'.pt[2], startY) ]_vars

\* the displayed transform-origin and transform are those of the state
StyleShowsState ==
    /\ styleOrigin = <<originX, originY>>
    /\ styleTransform = <<posX, posY, scale>>

\* C13: every handler that changes scale, origin or translation recomputes the
\* displayed CSS, so that after it the displayed transform-origin is
\* (originX, originY) and the transform is translate(posX, posY) scale(scale).
C13_MutationsRestyle ==
    [][ transformVars' # transformVars => StyleShowsState' ]_vars

\* C14: a dragStart (mousedown or one-finger touchstart) changes nothing of the
\* viewer when scale <= 1; when scale > 1 it sets dragging and the anchor to the
\* pointer minus the translation. Every dragMove (mousemove or one-finger
\* touchmove) while dragging sets the translation to the pointer minus the
\* anchor. Neither changes scale or origin.
C14_Drag ==
    [][ /\ (last'.op = "mousedown" \/ (last'.op = "touchStart" /\ touches' = 1)) =>
             /\ UNCHANGED <<transformVars, pinch, styleOrigin, styleTransform>>
             /\ RLe(scale, R(1)) => UNCHANGED <<dragging, startX, startY, styleCursor>>
             /\ RGt(scale, R(1)) =>
                  /\ dragging'
                  /\ startX' = RSub(last'.pt[1], posX)
                  /\ startY' = RSub(last'.pt[2], posY)
        /\ ((last'.op = "mousemove" \/ (last'.op = "touchMove" /\ touches' = 1))
              /\ dragging) =>
             /\ posX' = RSub(last'.pt[1], startX)
             /\ posY' = RSub(last'.pt[2], startY)
             /\ UNCHANGED <<scale, originX, originY, startX, startY, dragging>> ]_vars
\* a drag of a translated image moved it: the pointer is away from the anchor
C14_DragMoved ==
    /\ last.op \in {"mousemove", "touchMove"}
    /\ dragging
    /\ startX # R(0)
    /\ posX = RSub(last.pt[1], startX)
    /\ posX # R(0)

\* C15: after the upload dialog's closed event the file input is empty, the
\* preview image has no source, the preview container is hidden and no URL
\* the controller created is left unreleased.
C15_UploadCloseCleans ==
    last.op = "uploadHidden" =>
        /\ inputFile = Null
        /\ previewSrc = Null
        /\ wrapHidden
        /\ liveUrls = {}

\* C16 as claimed: mouseup clears dragging, touchend clears the pinch flag and
\* dragging, and the mousemove or touchmove that follows either of them
\* leaves scale, translation and origin unchanged.
C16_EndStopsMoves ==
    [][ /\ last'.op = "mouseup" => ~dragging'
        /\ last'.op = "touchEnd" => (~dragging' /\ ~pinch'.active)
        /\ (last.op \in {"mouseup", "touchEnd"}
              /\ last'.op \in {"mousemove", "touchMove", "pinchMove"}) =>
             UNCHANGED transformVars ]_vars
\* C16: mouseup clears dragging and leaves the pinch flag alone, touchend
\* clears both; only a dragStart sets dragging and only a pinchStart sets the
\* pinch flag; a mousemove or one-finger touchmove while dragging is clear, and
\* a two-finger touchmove while the pinch flag is clear, leave scale,
\* translation and origin unchanged.
C16_EndClearsFlags ==
    [][ /\ last'.op = "mouseup" => (~dragging' /\ pinch' = pinch)
        /\ last'.op = "touchEnd" => (~dragging' /\ ~pinch'.active)
        /\ (dragging' /\ ~dragging) => last'.op \in {"mousedown", "touchStart"}
        /\ (pinch'.active /\ ~pinch.active) => last'.op = "pinchStart"
        /\ (last'.op \in {"mousemove", "touchMove"} /\ ~dragging) =>
             UNCHANGED transformVars
        /\ (last'.op = "pinchMove" /\ ~pinch.active) =>
             UNCHANGED transformVars ]_vars
\* the pointer moved after a drag of a zoomed image had ended
C16_MovedAfterDragEnd ==
    /\ last.op \in {"mousemove", "touchMove"}
    /\ ~dragging
    /\ startX # R(0)
    /\ RGt(scale, R(1))

\* C17: the rescale formula x -> (x - origin) * (newScale / oldScale) + origin
\* maps a point at the origin to itself, for every origin and every pair of
\* scales in [1, 6].
C17_OriginIsFixed ==
    [][ last'.op = "rescale" =>
          /\ posX = originX => posX' = originX
          /\ posY = originY => posY' = originY ]_vars
\* a point at an origin other than zero was rescaled to scale 6
C17_RescaledAtOrigin ==
    /\ last.op = "rescale"
    /\ left = MaxRescales - 1
    /\ posX = originX /\ originX = <<3, 2>>
    /\ posY # originY
    /\ scale = R(6)

\* C18: the dragging flag is set only while scale > 1: a drag does not survive
\* a zoomOut, wheel or pinch that returns the scale to 1, nor reset, close or
\* open.
C18_DraggingOnlyZoomed == dragging => RGt(scale, R(1))

\* C19: whenever a pinch is active the stored previous distance is strictly
\* positive, so that a pinchMove never divides by zero.
C19_PinchDistPositive == pinch.active => RGt(pinch.dist, R(0))

\* C20: from any reachable state of the viewer, pressing zoomOut repeatedly
\* gives scale 1 and translation (0, 0) after at most 10 presses, and
\* further presses leave it so.
C20_ZoomOutReachesUnzoomed == presses >= 10 => IsIdentity

====
